---------------------------- MODULE Spec2Model ----------------------------
(***************************************************************************)
(* A model of the propositional-logic front end of pysat-formulas:         *)
(*   logic/formula.py          the formula algebra and the Tseytin pass    *)
(*   logic/int_formula.py      IntVariable, EqConstTerm, EqVarTerm         *)
(*   logic/pysatsynthesizer.py the registry of solver ids                  *)
(*                                                                         *)
(* Representation.  A formula object is a record with the same fields for  *)
(* every class (k is the class name).  A Python frozenset of formula       *)
(* objects is a set of such records.  A name is a record too: a name made  *)
(* by '__ts_dis_{}'.format(hash(self)) keeps the prefix and the hash.      *)
(* Python's hash() of a str and of a frozenset are uninterpreted: a hash   *)
(* value is a term, equal to another one only where the code's arithmetic  *)
(* makes it so.  An exception is a value of the model: the record of class *)
(* "Raise" carrying the exception's type.                                  *)
(***************************************************************************)
EXTENDS Integers, Sequences, FiniteSets, TLC

\* ------------------------------------------------------------------ bounds
MaxKids  == 2    \* most children of a Disjunction / Conjunction drawn as input
MaxDom   == 3    \* largest value of an IntVariable's domain
MaxVars  == 3    \* most names the registry is driven to
MaxIds   == 2    \* longest list of ids / literals handed to one call

\* ------------------------------------------------------------------- names
UserName(s) == [pre |-> "", base |-> s, h |-> <<>>]
NoName      == UserName("")
\* '<prefix>{}'.format(hash(self))
AuxName(prefix, hash) == [pre |-> prefix, base |-> "", h |-> <<hash>>]
\* a name of the reserved namespace __ts_
IsAuxName(n) == n.pre \in {"__ts_dis_", "__ts_con_", "__ts_"}

\* ------------------------------------------------------------- hash values
HBlank == [t |-> "int", i |-> 0, nm |-> <<>>, e |-> {}, a |-> <<>>, c |-> <<>>]
\* Python never returns -1 from hash(): a __hash__ of -1 becomes -2
HInt(i) == [HBlank EXCEPT !.i = IF i = -1 THEN -2 ELSE i]
\* hash(str)
HStr(n) == [HBlank EXCEPT !.t = "str", !.nm = <<n>>]
\* -hash(x)
HNeg(h) ==
    IF h.t = "int" THEN HInt(-h.i)
    ELSE IF h.t = "neg" THEN h.a[1]
    ELSE [HBlank EXCEPT !.t = "neg", !.a = <<h>>]
\* c1 * h1 + c2 * h2
HLin(c1, h1, c2, h2) ==
    IF h1.t = "int" /\ h2.t = "int" THEN HInt(c1 * h1.i + c2 * h2.i)
    ELSE [HBlank EXCEPT !.t = "lin", !.a = <<h1, h2>>, !.c = <<c1, c2>>]
\* hash(frozenset): a function of the hashes of the elements and their number
HFrozenset(counted) == [HBlank EXCEPT !.t = "fs", !.e = counted]

\* ---------------------------------------------------------- formula objects
Blank == [k |-> "None", nm |-> NoName, b |-> FALSE, kids |-> {},
          args |-> <<>>, iv |-> <<>>, val |-> 0]
None == Blank
Raise(e) == [Blank EXCEPT !.k = "Raise", !.nm = UserName(e)]
IsRaise(f) == f.k = "Raise"

Constant(value) ==
    [Blank EXCEPT !.k = "Constant", !.b = value,
                  !.nm = UserName(IF value THEN "True" ELSE "False")]
Variable(name) == [Blank EXCEPT !.k = "Variable", !.nm = name]
LiteralNegation(literal) ==
    [Blank EXCEPT !.k = "LiteralNegation", !.nm = literal.nm, !.args = <<literal>>]
Disjunction(subformulae) == [Blank EXCEPT !.k = "Disjunction", !.kids = subformulae]
Clause(literals) == [Blank EXCEPT !.k = "Clause", !.kids = literals]
Conjunction(subformulae) == [Blank EXCEPT !.k = "Conjunction", !.kids = subformulae]
CNF(clauses) == [Blank EXCEPT !.k = "CNF", !.kids = clauses]
FormulaNegation(formula) == [Blank EXCEPT !.k = "FormulaNegation", !.args = <<formula>>]
Implication(lhs, rhs) == [Blank EXCEPT !.k = "Implication", !.args = <<lhs, rhs>>]
Equivalence(lhs, rhs) == [Blank EXCEPT !.k = "Equivalence", !.args = <<lhs, rhs>>]

IntVariable(name, max, min) == [name |-> name, max |-> max, min |-> min]
EqConstName(var, val) == UserName(var.name \o "==" \o ToString(val))
EqConstTerm(var, val) ==
    [Blank EXCEPT !.k = "EqConstTerm", !.nm = EqConstName(var, val),
                  !.iv = <<var>>, !.val = val]
EqVarTerm(lhs, rhs) ==
    [Blank EXCEPT !.k = "EqVarTerm", !.nm = UserName(lhs.name \o "==" \o rhs.name),
                  !.iv = <<lhs, rhs>>]

\* isinstance(f, Literal) and so on, by the class hierarchy
IsLiteral(f) ==
    f.k \in {"Constant", "Variable", "LiteralNegation", "EqConstTerm", "EqVarTerm"}
IsDisjunction(f) == f.k \in {"Disjunction", "Clause"}
IsClause(f) == f.k = "Clause"
IsConjunction(f) == f.k \in {"Conjunction", "CNF"}
IsCNF(f) == f.k = "CNF"


\* ------------------------------------------------------ hashing and equality
RECURSIVE Orders(_)
\* every order in which the elements of a frozenset can be iterated
Orders(S) ==
    IF S = {} THEN {<<>>}
    ELSE UNION {{<<x>> \o q : q \in Orders(S \ {x})} : x \in S}

RECURSIVE Hash(_)
\* hash(frozenset(S))
HashFrozenset(S) ==
    HFrozenset({[h |-> Hash(x), n |-> Cardinality({y \in S : Hash(y) = Hash(x)})] : x \in S})
\* IntVariable.__hash__
HashIntVariable(v) == HStr(UserName(v.name))
\* the __hash__ of every class
Hash(f) ==
    CASE f.k = "Constant"        -> HInt(IF f.b THEN 1 ELSE 0)
      [] f.k = "LiteralNegation" -> HNeg(Hash(f.args[1]))
      [] f.k = "Variable"        -> HStr(f.nm)
      [] IsDisjunction(f)        -> HashFrozenset(f.kids)
      [] IsConjunction(f)        -> HashFrozenset(f.kids)
      [] f.k = "FormulaNegation" -> HNeg(Hash(f.args[1]))
      [] f.k = "Implication"     -> HLin(1213, Hash(f.args[1]), 229, Hash(f.args[2]))
      [] f.k = "Equivalence"     ->
            HLin(421, HashFrozenset({f.args[1], f.args[2]}), 0, HInt(0))
      [] f.k = "EqConstTerm"     -> HLin(13, HashIntVariable(f.iv[1]), 23, HInt(f.val))
      [] f.k = "EqVarTerm"       ->
            LET hs == {HashIntVariable(f.iv[1]), HashIntVariable(f.iv[2])}
            IN  HLin(383, HFrozenset({[h |-> x, n |-> 1] : x \in hs}), 0, HInt(0))
      [] OTHER                   -> HInt(0)

\* IntVariable.__eq__
IntVariableEq(v, w) == v.name = w.name

RECURSIVE PyEq(_, _, _)
\* frozenset == frozenset: the same size, and every element of S is found in T,
\* by its hash and then by identity or by the stored element's __eq__.  shared
\* says whether two elements of the same content are one object.
FrozensetEq(S, T, shared) ==
    /\ Cardinality(S) = Cardinality(T)
    /\ \A a \in S : \E b \in T :
          /\ Hash(a) = Hash(b)
          /\ \/ shared /\ a = b
             \/ PyEq(b, a, shared)
\* a == b as Python evaluates it: the __eq__ of a's class, applied to b
PyEq(a, b, shared) ==
    CASE a.k = "Constant" ->
            IF b.k = "Constant" THEN a.b = b.b
            ELSE IF b.k = "LiteralNegation" THEN PyEq(b, a, shared)
            ELSE FALSE
      [] a.k = "LiteralNegation" ->
            IF a.args[1].k = "Constant" THEN ~PyEq(a.args[1], b, shared)
            ELSE IF b.k = "LiteralNegation" THEN PyEq(a.args[1], b.args[1], shared)
            ELSE FALSE
      [] a.k = "Variable" -> b.k = "Variable" /\ a.nm = b.nm
      [] IsDisjunction(a) -> IsDisjunction(b) /\ FrozensetEq(a.kids, b.kids, shared)
      [] IsConjunction(a) -> IsDisjunction(b) /\ FrozensetEq(a.kids, b.kids, shared)
      [] a.k = "FormulaNegation" ->
            b.k = "FormulaNegation" /\ PyEq(a.args[1], b.args[1], shared)
      [] a.k = "Implication" ->
            /\ b.k = "Implication"
            /\ PyEq(a.args[1], b.args[1], shared)
            /\ PyEq(a.args[2], b.args[2], shared)
      [] a.k = "Equivalence" ->
            /\ b.k = "Implication"
            /\ \/ PyEq(a.args[1], b.args[1], shared) /\ PyEq(a.args[2], b.args[2], shared)
               \/ PyEq(a.args[1], b.args[2], shared) /\ PyEq(a.args[2], b.args[1], shared)
      [] a.k = "EqConstTerm" ->
            b.k = "EqConstTerm" /\ a.val = b.val /\ IntVariableEq(a.iv[1], b.iv[1])
      [] a.k = "EqVarTerm" ->
            /\ b.k = "EqVarTerm"
            /\ \/ IntVariableEq(a.iv[1], b.iv[1]) /\ IntVariableEq(a.iv[2], b.iv[2])
               \/ IntVariableEq(a.iv[1], b.iv[2]) /\ IntVariableEq(a.iv[2], b.iv[1])
      [] OTHER -> FALSE

\* a set keeps a new element unless a stored one has its hash and is the same
\* object or compares equal to it (stored == new)
Stored(S, x) == \E s \in S : s = x \/ (Hash(s) = Hash(x) /\ PyEq(s, x, TRUE))
\* frozenset | frozenset
PyUnion(S, T) == S \cup {x \in T : ~Stored(S, x)}
RECURSIVE PyFrozenset(_)
\* frozenset(iterable): the elements inserted one after the other
PyFrozenset(q) ==
    IF q = <<>> THEN {}
    ELSE LET S == PyFrozenset(SubSeq(q, 1, Len(q) - 1))
         IN  PyUnion(S, {q[Len(q)]})
\* S is a frozenset the program can hold: some order of insertion yields it
IsFrozenset(S) == \E q \in Orders(S) : PyFrozenset(q) = S

\* ----------------------------------------------------------------- operators
\* __neg__
Neg(f) ==
    CASE IsRaise(f)                                    -> f
      [] f.k \in {"LiteralNegation", "FormulaNegation"} -> f.args[1]
      [] IsLiteral(f)                                  -> LiteralNegation(f)
      [] OTHER                                         -> FormulaNegation(f)

\* Clause.__add__
ClauseAdd(self, other) ==
    IF IsLiteral(other) THEN Clause(PyUnion(self.kids, {other}))
    ELSE IF IsClause(other) THEN Clause(PyUnion(self.kids, other.kids))
    ELSE Raise("TypeError")
\* Disjunction.__add__
DisjunctionAdd(self, other) ==
    IF IsDisjunction(other) THEN Disjunction(PyUnion(self.kids, other.kids))
    ELSE Disjunction(PyUnion(self.kids, {other}))
\* self + other, by the class of self
Add(self, other) ==
    CASE IsRaise(self)           -> self
      [] IsRaise(other)          -> other
      [] IsLiteral(self)         -> ClauseAdd(Clause({self}), other)
      [] IsClause(self)          -> ClauseAdd(self, other)
      [] self.k = "Disjunction"  -> DisjunctionAdd(self, other)
      [] OTHER                   -> DisjunctionAdd(Disjunction({self}), other)

\* CNF.__mul__
CNFMul(self, other) ==
    IF IsLiteral(other) THEN CNF(PyUnion(self.kids, {Clause({other})}))
    ELSE IF IsClause(other) THEN CNF(PyUnion(self.kids, {other}))
    ELSE IF IsCNF(other) THEN CNF(PyUnion(self.kids, other.kids))
    ELSE Raise("TypeError")
\* Conjunction.__mul__
ConjunctionMul(self, other) ==
    IF IsConjunction(other) THEN Conjunction(PyUnion(self.kids, other.kids))
    ELSE Conjunction(PyUnion(self.kids, {other}))
\* self * other, by the class of self
Mul(self, other) ==
    CASE IsRaise(self)           -> self
      [] IsRaise(other)          -> other
      [] IsLiteral(self)         -> CNFMul(CNF({Clause({self})}), other)
      [] IsClause(self)          -> CNFMul(CNF({self}), other)
      [] IsCNF(self)             -> CNFMul(self, other)
      [] self.k = "Conjunction"  -> ConjunctionMul(self, other)
      [] OTHER                   -> ConjunctionMul(Conjunction({self}), other)

\* ------------------------------------------------------- Tseytin transformation
\* what tseytin_transform returns, (root, cnf), or the exception it raises
Returned(root, cnf) ==
    IF IsRaise(root) THEN [root |-> root, cnf |-> root]
    ELSE IF IsRaise(cnf) THEN [root |-> cnf, cnf |-> cnf]
    ELSE [root |-> root, cnf |-> cnf]
Raised(r) == IsRaise(r.root)

\* the exception of the first pair that is one, None if no pair is
FirstRaised(pairs) ==
    LET bad == {i \in 1..Len(pairs) : Raised(pairs[i])}
    IN  IF bad = {} THEN None
        ELSE pairs[CHOOSE i \in bad : \A j \in bad : i <= j].root

\* Disjunction.tseytin_transform; pairs is the list
\* [phi.tseytin_transform() for phi in self.subformulae]
DisjunctionEmit(self, pairs) ==
    LET s     == Variable(AuxName("__ts_dis_", Hash(self)))
        \* t_phis, cnfs = zip(*pairs)
        t_phis == [i \in 1..Len(pairs) |-> pairs[i].root]
        cnfs   == [i \in 1..Len(pairs) |-> pairs[i].cnf]
        cnf0  == CNF(PyFrozenset(<<Add(Clause(PyFrozenset(t_phis)), Neg(s))>>))
        \* reduce(lambda x, t: x * (s + -t), t_phis, cnf)
        x[i \in 0..Len(t_phis)] ==
            IF i = 0 THEN cnf0 ELSE Mul(x[i - 1], Add(s, Neg(t_phis[i])))
        cnf1  == x[Len(t_phis)]
        \* reduce(lambda x, y: x * y, cnfs, cnf)
        y[i \in 0..Len(cnfs)] == IF i = 0 THEN cnf1 ELSE Mul(y[i - 1], cnfs[i])
    IN  IF IsRaise(FirstRaised(pairs)) THEN Returned(FirstRaised(pairs), None)
        ELSE IF Len(pairs) = 0 THEN Returned(Raise("ValueError"), None)
        ELSE Returned(s, y[Len(cnfs)])

\* Conjunction.tseytin_transform; pairs is the list
\* [phi.tseytin_transform() for phi in self.subformulae]
ConjunctionEmit(self, pairs) ==
    LET t_phis == [i \in 1..Len(pairs) |-> pairs[i].root]
        cnfs   == [i \in 1..Len(pairs) |-> pairs[i].cnf]
        s     == Variable(AuxName("__ts_con_", Hash(self)))
        \* reduce(lambda x, t: x + -t, t_phis, s)
        w[i \in 0..Len(t_phis)] == IF i = 0 THEN s ELSE Add(w[i - 1], Neg(t_phis[i]))
        cnf0  == w[Len(t_phis)]
        \* reduce(lambda x, t: x * (-s + t), t_phis): without an initial value
        \* reduce() starts from the first element
        x[i \in 1..Len(t_phis)] ==
            IF i = 1 THEN t_phis[1] ELSE Mul(x[i - 1], Add(Neg(s), t_phis[i]))
        cnf1  == Mul(cnf0, x[Len(t_phis)])
        \* reduce(lambda x, y: x * y, cnfs, cnf)
        y[i \in 0..Len(cnfs)] == IF i = 0 THEN cnf1 ELSE Mul(y[i - 1], cnfs[i])
        \* assert(isinstance(cnf, CNF))
        Asserted(cnf) ==
            IF ~IsCNF(cnf) /\ ~IsRaise(cnf) THEN Raise("AssertionError") ELSE cnf
    IN  IF IsRaise(FirstRaised(pairs)) THEN Returned(FirstRaised(pairs), None)
        ELSE IF Len(pairs) = 0 THEN Returned(Raise("ValueError"), None)
        ELSE Returned(s, Asserted(y[Len(cnfs)]))

\* FormulaNegation.tseytin_transform; r is self.formula.tseytin_transform():
\* reduce() iterates cnfs, a CNF, and a CNF has no __iter__
FormulaNegationEmit(self, r) ==
    LET t   == r.root
        s   == Variable(AuxName("__ts_", Hash(self)))
        cnf == CNF(PyFrozenset(<<Add(Neg(s), Neg(t)), Add(s, t)>>))
    IN  IF Raised(r) THEN r
        ELSE IF IsRaise(cnf) THEN Returned(cnf, None)
        ELSE Returned(Raise("TypeError"), None)

\* the formula EqVarTerm.tseytin_transform builds
EqVarTermFormula(self) ==
    LET lhs == self.iv[1]
        rhs == self.iv[2]
        ilb == IF lhs.min >= rhs.min THEN lhs.min ELSE rhs.min
        iub == (IF lhs.max <= rhs.max THEN lhs.max ELSE rhs.max) + 1
    IN  Disjunction(PyFrozenset(
            [i \in 1..(iub - ilb) |->
                Mul(EqConstTerm(lhs, ilb + i - 1), EqConstTerm(rhs, ilb + i - 1))]))

\* the formula whose transformation f.tseytin_transform() returns: the one that
\* Implication, Equivalence and EqVarTerm build and delegate to, or f itself
Delegate(f) ==
    CASE f.k = "EqVarTerm"   -> EqVarTermFormula(f)
      [] f.k = "Implication" -> Add(Neg(f.args[1]), f.args[2])
      [] f.k = "Equivalence" ->
            Mul(Implication(f.args[1], f.args[2]), Implication(f.args[2], f.args[1]))
      [] OTHER               -> f
\* the subformulae that the tseytin_transform of f's class transforms first
Subformulae(f) ==
    CASE IsDisjunction(f) \/ IsConjunction(f) -> f.kids
      [] f.k = "FormulaNegation"              -> {f.args[1]}
      [] OTHER                                -> {}
\* the tseytin_transform of f's class, its subformulae transformed to pairs
Emit(f, pairs) ==
    CASE IsRaise(f)              -> Returned(f, None)
      [] IsLiteral(f)            -> Returned(f, CNF({}))
      [] IsDisjunction(f)        -> DisjunctionEmit(f, pairs)
      [] IsConjunction(f)        -> ConjunctionEmit(f, pairs)
      [] f.k = "FormulaNegation" -> FormulaNegationEmit(f, pairs[1])
      [] OTHER                   -> Returned(Raise("NotImplementedError"), None)
\* the lists [phi.tseytin_transform() for phi in q], tt[phi] being the pairs
\* that phi.tseytin_transform() can return
Pairs(q, tt) ==
    LET list[i \in 0..Len(q)] ==
            IF i = 0 THEN {<<>>}
            ELSE {Append(pairs, r) : pairs \in list[i - 1], r \in tt[q[i]]}
    IN  list[Len(q)]

RECURSIVE TseytinTransform(_)
\* every pair (root, cnf) that f.tseytin_transform() can return, over the orders
\* in which the frozensets of subformulae iterate
TseytinTransform(f) ==
    UNION {UNION {{Emit(self, pairs) :
                      pairs \in UNION {Pairs(q, tt) : q \in Orders(DOMAIN tt)}} :
                  tt \in {[phi \in Subformulae(self) |-> TseytinTransform(phi)]}} :
           self \in {Delegate(f)}}

\* Formula.to_cnf and its overrides in Literal, Clause and CNF
ToCnf(f) ==
    CASE IsLiteral(f) -> {CNF(PyFrozenset(<<Clause(PyFrozenset(<<f>>))>>))}
      [] IsClause(f)  -> {CNF(PyFrozenset(<<f>>))}
      [] IsCNF(f)     -> {f}
      [] OTHER        -> {r.cnf : r \in TseytinTransform(f)}

\* -------------------------------------------------------------- integer layer
\* no_other_means_one with the bug of adding (-y + x)
NoOtherMeansOne_Unnegated(x, ys) ==
    LET formula[i \in 0..Len(ys)] ==
            IF i = 0 THEN CNF({}) ELSE Mul(formula[i - 1], Add(Neg(ys[i]), x))
    IN  formula[Len(ys)]
\* no_other_means_one(x, ys) of IntVariable.get_specification
NoOtherMeansOne(x, ys) ==
    LET formula[i \in 0..Len(ys)] ==
            IF i = 0 THEN CNF({}) ELSE Mul(formula[i - 1], Add(Neg(ys[i]), Neg(x)))
    IN  formula[Len(ys)]
\* only_one(xs), with the frozenset xs iterated in the order q
OnlyOne(xs, q) ==
    LET others(x) == SelectSeq(q, LAMBDA y : ~PyEq(y, x, TRUE))
        formula[i \in 0..Len(q)] ==
            IF i = 0 THEN CNF({})
            ELSE Mul(formula[i - 1], NoOtherMeansOne(q[i], others(q[i])))
    IN  Mul(formula[Len(q)], Clause(xs))
\* IntVariable.get_specification: every CNF it can return
GetSpecification(self) ==
    LET values_syn == [i \in 1..(self.max + 1 - self.min) |-> EqConstTerm(self, self.min + i - 1)]
        xs == PyFrozenset(values_syn)
    IN  {OnlyOne(xs, q) : q \in Orders(xs)}

\* ---------------------------------------------------------- PySATSynthesizer
\* PySATSynthesizer.__init__
constant_true_id   == 1
variable_id_offset == 2

\* The synthesizer's state is the pair (v2i, i2v) of __variables_to_id and
\* __ids_to_variables.  A method's outcome is that pair after the call, what it
\* returned (id, ids, lits or cnf) and the exception it raised, if any.
Outcome(v2i, i2v) ==
    [v2i |-> v2i, i2v |-> i2v, exc |-> "", id |-> 0, ids |-> <<>>,
     lits |-> <<>>, cnf |-> <<>>]

\* the synthesizer's dictionary with one more entry
WithEntry(v2i, name, id) ==
    [n \in DOMAIN v2i \cup {name} |-> IF n = name THEN id ELSE v2i[n]]

\* synthesize_variable with the bug of numbering from the true-id
SynthesizeVariable_NoOffset(v2i, i2v, variable_name) ==
    IF variable_name \notin DOMAIN v2i
    THEN LET list_idx == Len(i2v)
             id       == list_idx + constant_true_id
         IN  [Outcome(WithEntry(v2i, variable_name, id), Append(i2v, variable_name))
                 EXCEPT !.id = id]
    ELSE [Outcome(v2i, i2v) EXCEPT !.id = v2i[variable_name]]
\* PySATSynthesizer.synthesize_variable
SynthesizeVariable(v2i, i2v, variable_name) ==
    IF variable_name \notin DOMAIN v2i
    THEN LET list_idx == Len(i2v)
             id       == list_idx + variable_id_offset
         IN  [Outcome(WithEntry(v2i, variable_name, id), Append(i2v, variable_name))
                 EXCEPT !.id = id]
    ELSE [Outcome(v2i, i2v) EXCEPT !.id = v2i[variable_name]]

\* PySATSynthesizer.synthesize_negation
SynthesizeNegation(literal_representation) == -literal_representation

\* PySATSynthesizer.synthesize_true
SynthesizeTrue == constant_true_id

RECURSIVE LiteralSynthesize(_, _, _)
\* literal.synthesize(synthesizer), by the class of the literal
LiteralSynthesize(v2i, i2v, literal) ==
    CASE literal.k = "Constant" ->
            [Outcome(v2i, i2v) EXCEPT
                !.id = IF literal.b THEN SynthesizeTrue
                       ELSE SynthesizeNegation(SynthesizeTrue)]
      [] literal.k = "LiteralNegation" ->
            LET r == LiteralSynthesize(v2i, i2v, literal.args[1])
            IN  IF r.exc # "" THEN r ELSE [r EXCEPT !.id = SynthesizeNegation(r.id)]
      [] literal.k = "Variable" -> SynthesizeVariable(v2i, i2v, literal.nm)
      \* Variable.from_copy(self).synthesize(synthesizer)
      [] literal.k = "EqConstTerm" -> SynthesizeVariable(v2i, i2v, literal.nm)
      [] OTHER -> [Outcome(v2i, i2v) EXCEPT !.exc = "NotImplementedError"]

RECURSIVE SynthesizeEach(_, _, _)
\* [literal.synthesize(self) for literal in literals]
SynthesizeEach(v2i, i2v, literals) ==
    IF literals = <<>> THEN Outcome(v2i, i2v)
    ELSE LET r == LiteralSynthesize(v2i, i2v, Head(literals))
             t == SynthesizeEach(r.v2i, r.i2v, Tail(literals))
         IN  IF r.exc # "" THEN r
             ELSE IF t.exc # "" THEN t
             ELSE [t EXCEPT !.ids = <<r.id>> \o t.ids]

\* Clause.synthesize with PySATSynthesizer.synthesize_clause: the literals of
\* the clause rendered in the order the frozenset iterates
ClauseSynthesize(v2i, i2v, literals) == SynthesizeEach(v2i, i2v, literals)

RECURSIVE CNFSynthesize(_, _, _)
\* CNF.synthesize with PySATSynthesizer.synthesize_cnf: clauses is the sequence
\* of the clauses, each the sequence of its literals, as iterated
CNFSynthesize(v2i, i2v, clauses) ==
    IF clauses = <<>> THEN Outcome(v2i, i2v)
    ELSE LET r == ClauseSynthesize(v2i, i2v, Head(clauses))
             t == CNFSynthesize(r.v2i, r.i2v, Tail(clauses))
         IN  IF r.exc # "" THEN r
             ELSE IF t.exc # "" THEN t
             ELSE [t EXCEPT !.cnf = <<r.ids>> \o t.cnf]

\* the orders in which a CNF's clauses and their literals can be iterated
Iterations(cnf) ==
    LET all == UNION {Orders(c.kids) : c \in cnf.kids}
        each == {o \in [cnf.kids -> all] : \A c \in cnf.kids : o[c] \in Orders(c.kids)}
    IN  {[i \in 1..Len(q) |-> o[q[i]]] : q \in Orders(cnf.kids), o \in each}

\* PySATSynthesizer.synthesize: every outcome, over the orders of iteration
Synthesize(v2i, i2v, formula) ==
    LET f1 == IF IsLiteral(formula) THEN Clause(PyFrozenset(<<formula>>)) ELSE formula
        f2 == IF IsClause(f1) THEN CNF(PyFrozenset(<<f1>>)) ELSE f1
    IN  IF IsCNF(f2) THEN {CNFSynthesize(v2i, i2v, it) : it \in Iterations(f2)}
        \* Disjunction, Conjunction, FormulaNegation, Implication, Equivalence
        ELSE {[Outcome(v2i, i2v) EXCEPT !.exc = "NotImplementedError"]}

Abs(i) == IF i < 0 THEN -i ELSE i
\* translate_single with the bug of dropping the sign
TranslateSingle_DropsSign(i2v, idx) ==
    LET var_id == IF idx < 0 THEN -idx ELSE idx
    IN  Variable(i2v[var_id - variable_id_offset])
\* translate_single of PySATSynthesizer.translate
TranslateSingle(i2v, idx) ==
    LET negate == idx < 0
        var_id == IF negate THEN -idx ELSE idx
        var    == Variable(i2v[var_id - variable_id_offset])
    IN  IF negate THEN Neg(var) ELSE var
\* PySATSynthesizer.translate; a list index is zero-based
Translate(v2i, i2v, var_ids) ==
    LET kept == SelectSeq(var_ids, LAMBDA idx : Abs(idx) >= variable_id_offset)
        zero_based == [j \in 0..(Len(i2v) - 1) |-> i2v[j + 1]]
    IN  IF \E j \in 1..Len(kept) : Abs(kept[j]) - variable_id_offset >= Len(i2v)
        THEN [Outcome(v2i, i2v) EXCEPT !.exc = "IndexError"]
        ELSE [Outcome(v2i, i2v) EXCEPT
                !.lits = [j \in 1..Len(kept) |-> TranslateSingle(zero_based, kept[j])]]

\* get_assumptions with the bug of putting the true-id last
GetAssumptions_TrueIdLast(v2i, i2v, given, assignments) ==
    LET assumptions == <<constant_true_id>>
        r == SynthesizeEach(v2i, i2v, assignments)
    IN  IF ~given THEN [Outcome(v2i, i2v) EXCEPT !.ids = assumptions]
        ELSE IF r.exc # "" THEN r
        ELSE [r EXCEPT !.ids = r.ids \o assumptions]
\* PySATSynthesizer.get_assumptions; given is false for assignments=None
GetAssumptions(v2i, i2v, given, assignments) ==
    LET assumptions == <<constant_true_id>>
        r == SynthesizeEach(v2i, i2v, assignments)
    IN  IF ~given THEN [Outcome(v2i, i2v) EXCEPT !.ids = assumptions]
        ELSE IF r.exc # "" THEN r
        ELSE [r EXCEPT !.ids = assumptions \o r.ids]

\* PySATSynthesizer.get_known_variables
GetKnownVariables(i2v) == [j \in 1..Len(i2v) |-> i2v[j]]

\* the methods Synthesizer declares with @abstractmethod
SynthesizerAbstractMethods ==
    {"synthesize_variable", "synthesize_negation", "synthesize_true",
     "synthesize_disjunction", "synthesize_conjunction"}
\* the methods PySATSynthesizer defines
PySATSynthesizerMethods ==
    {"__init__", "synthesize_variable", "synthesize_negation", "synthesize_true",
     "synthesize_clause", "synthesize_cnf", "translate", "get_assumptions",
     "get_known_variables", "synthesize"}
\* ABCMeta: a class is instantiated only when no abstract method is left; added
\* are the methods a subclass of PySATSynthesizer defines
Instantiate(added) ==
    IF SynthesizerAbstractMethods \subseteq PySATSynthesizerMethods \cup added
    THEN "ready" ELSE "TypeError"

\* ------------------------------------------------------------------ semantics
\* the names of the variables a formula mentions
RECURSIVE Names(_)
Names(f) ==
    CASE f.k \in {"Variable", "EqConstTerm", "EqVarTerm"} -> {f.nm}
      [] f.k \in {"LiteralNegation", "FormulaNegation"}   -> Names(f.args[1])
      [] f.k \in {"Implication", "Equivalence"} -> Names(f.args[1]) \cup Names(f.args[2])
      [] IsDisjunction(f) \/ IsConjunction(f)   -> UNION {Names(g) : g \in f.kids}
      [] OTHER -> {}

\* the truth value of a formula under an assignment A of its variables
RECURSIVE Eval(_, _)
Eval(f, A) ==
    CASE f.k = "Constant"  -> f.b
      [] f.k \in {"Variable", "EqConstTerm", "EqVarTerm"} -> A[f.nm]
      [] f.k \in {"LiteralNegation", "FormulaNegation"}   -> ~Eval(f.args[1], A)
      [] IsDisjunction(f)  -> \E g \in f.kids : Eval(g, A)
      [] IsConjunction(f)  -> \A g \in f.kids : Eval(g, A)
      [] f.k = "Implication" -> Eval(f.args[1], A) => Eval(f.args[2], A)
      [] f.k = "Equivalence" -> Eval(f.args[1], A) <=> Eval(f.args[2], A)
      [] OTHER -> FALSE

\* A extended by B
Extend(A, B) ==
    [n \in DOMAIN A \cup DOMAIN B |-> IF n \in DOMAIN A THEN A[n] ELSE B[n]]
\* some extension of A to the auxiliary variables satisfies cnf and root
SatisfiableWith(root, cnf, A) ==
    LET aux == (Names(cnf) \cup Names(root)) \ DOMAIN A
    IN  \E B \in [aux -> BOOLEAN] : Eval(cnf, Extend(A, B)) /\ Eval(root, Extend(A, B))
\* phi and (root, cnf) agree under every assignment of phi's variables
Equisatisfiable(f, root, cnf) ==
    \A A \in [Names(f) -> BOOLEAN] : Eval(f, A) <=> SatisfiableWith(root, cnf, A)

\* --------------------------------------------------------------------- inputs
UserNames == {"x", "y"}
RECURSIVE SetsUpTo(_, _)
\* the subsets of S of at most n elements
SetsUpTo(S, n) ==
    IF n = 0 THEN {{}}
    ELSE LET T == SetsUpTo(S, n - 1) IN T \cup {t \cup {x} : t \in T, x \in S}
\* the literals the builders make of the names and the constants
Atoms     == {Variable(UserName(n)) : n \in UserNames}
Constants == {Constant(TRUE), Constant(FALSE)}
PlainLiterals == Atoms \cup {Neg(l) : l \in Atoms}
Literals  == PlainLiterals \cup Constants \cup {Neg(l) : l \in Constants}
Frozensets(S) == {T \in SetsUpTo(S, MaxKids) : IsFrozenset(T)}
\* the literals drawn as children of a junction that is itself a child
Leaves == Atoms \cup {Neg(Variable(UserName("x")))}
\* formulas of depth one
Inner ==
    {Disjunction(T) : T \in Frozensets(Leaves)}
    \cup {Conjunction(T) : T \in Frozensets(Leaves)}
    \cup {Implication(a, b) : a, b \in Atoms}
    \cup {Equivalence(a, b) : a, b \in Atoms}
Shallow ==
    Literals \cup Inner
    \cup {Clause(T) : T \in Frozensets(Literals)}
    \cup {Disjunction(T) : T \in Frozensets(Literals)}
    \cup {Conjunction(T) : T \in Frozensets(Literals)}
    \cup {CNF({Clause(T)}) : T \in Frozensets(PlainLiterals)}
\* formulas of depth two
Formulas ==
    Shallow
    \cup {Disjunction(T) : T \in Frozensets(Leaves \cup Inner)}
    \cup {Conjunction(T) : T \in Frozensets(Leaves \cup Inner)}
    \cup {Neg(f) : f \in Inner}
    \cup {Implication(a, b) : a \in Atoms, b \in Inner}
    \cup {Implication(a, b) : a \in Inner, b \in Atoms}
    \cup {Equivalence(a, b) : a \in Atoms, b \in Inner}
\* formulas with two children of one class and one hash that differ: hash(-l)
\* is -hash(l), 0 for both Constant(False) and its negation, and a Disjunction
\* and a Conjunction of the same children hash alike
Twins ==
    {Conjunction({Disjunction({Constant(FALSE)}), Disjunction({Neg(Constant(FALSE))})}),
     Disjunction({Disjunction({Constant(FALSE)}), Disjunction({Neg(Constant(FALSE))})}),
     Conjunction({Disjunction({Conjunction({Variable(UserName("x"))})}),
                  Disjunction({Disjunction({Variable(UserName("x"))})})})}
\* the operands of ==
Nested ==
    {Conjunction({Variable(UserName("x"))}), Disjunction({Variable(UserName("x"))}),
     Equivalence(Variable(UserName("x")), Variable(UserName("y")))}
Operands ==
    Literals \cup Inner
    \cup {Clause(T) : T \in Frozensets(Leaves)}
    \cup {CNF({Clause(T)}) : T \in Frozensets(Leaves)}
    \cup {Disjunction({f}) : f \in Nested}
    \cup {Conjunction({f}) : f \in Nested}

\* the integer variables
IntNames == {"v", "w"}
IntVariables ==
    {v \in {IntVariable(n, hi, lo) : n \in IntNames, lo \in 0..MaxDom, hi \in 0..MaxDom} :
        v.min <= v.max}
NoIntVariable == IntVariable("", 0, 0)
\* x == y for two different integer variables of any two domains
EqVarTerms ==
    {EqVarTerm(x, y) : x \in {v \in IntVariables : v.name = "v"},
                       y \in {v \in IntVariables : v.name = "w"}}

\* ---------------------------------------------------------------------- state
VARIABLES
    op,                 \* the operation called last ("init": none yet)
    phi, psi,           \* the formulas it was called on
    shared,             \* ==: equal children of the two operands are one object
    ret,                \* what tseytin_transform returned: (root, cnf)
    out,                \* the formula to_cnf or get_specification returned
    eq,                 \* what == returned
    ivar,               \* the IntVariable get_specification was called on
    asg,                \* a boolean assignment to the literals of out
    sat,                \* whether asg satisfies out
    instance,           \* "none", "ready" (a synthesizer exists) or "TypeError"
    variables_to_id,    \* PySATSynthesizer.__variables_to_id
    ids_to_variables,   \* PySATSynthesizer.__ids_to_variables
    arg,                \* the argument of the synthesizer's call
    result,             \* what the synthesizer's call returned
    prev                \* translate(ids): the call that returned these ids, if one did

formula_vars == <<op, phi, psi, shared, ret, out, eq>>
int_vars     == <<ivar, asg, sat>>
synth_vars   == <<instance, variables_to_id, ids_to_variables, arg, result, prev>>
vars == <<op, phi, psi, shared, ret, out, eq, ivar, asg, sat,
          instance, variables_to_id, ids_to_variables, arg, result, prev>>

NoReturn == [root |-> None, cnf |-> None]
NoArg    == [name |-> NoName, given |-> FALSE, lits |-> <<>>, ids |-> <<>>, f |-> None]
NoResult == [exc |-> "", id |-> 0, ids |-> <<>>, lits |-> <<>>, cnf |-> <<>>]
NoPrev   == [op |-> "", f |-> None, lits |-> <<>>]

Init ==
    /\ op = "init"
    /\ phi = None /\ psi = None /\ shared = FALSE
    /\ ret = NoReturn /\ out = None /\ eq = FALSE
    /\ ivar = NoIntVariable /\ asg = <<>> /\ sat = FALSE
    /\ instance = "none"
    /\ variables_to_id = <<>>
    /\ ids_to_variables = <<>>
    /\ arg = NoArg
    /\ result = NoResult
    /\ prev = NoPrev

\* ------------------------------------------------------ the formula algebra
\* f.tseytin_transform() on a formula just built returns one of `pairs`
TseytinTransformCall(f, pairs) ==
    /\ op = "init"
    /\ \E r \in pairs : op' = "tseytin_transform" /\ phi' = f /\ ret' = r
    /\ UNCHANGED <<psi, shared, out, eq, int_vars, synth_vars>>
\* f.tseytin_transform(), f any formula or EqVarTerm of the inputs
CallTseytinTransform ==
    \E f \in Formulas \cup Twins \cup EqVarTerms :
        TseytinTransformCall(f, TseytinTransform(f))

\* f.to_cnf() on a formula just built returns one of `cnfs`
ToCnfCall(f, cnfs) ==
    /\ op = "init"
    /\ \E c \in cnfs : op' = "to_cnf" /\ phi' = f /\ out' = c
    /\ UNCHANGED <<psi, shared, ret, eq, int_vars, synth_vars>>
\* f.to_cnf(), f any formula of the inputs
CallToCnf ==
    \E f \in Formulas : ToCnfCall(f, ToCnf(f))

\* a == b on two formulas just built
CallEq ==
    /\ op = "init"
    /\ \E a, b \in Operands : \E sh \in BOOLEAN :
          /\ op' = "__eq__"
          /\ phi' = a
          /\ psi' = b
          /\ shared' = sh
          /\ eq' = PyEq(a, b, sh)
    /\ UNCHANGED <<ret, out, int_vars, synth_vars>>

\* a + b on two formulas just built, sums among them
CallAdd ==
    /\ op = "init"
    /\ \E a, b \in Operands :
          /\ op' = "__add__"
          /\ phi' = a
          /\ psi' = b
          /\ out' = Add(a, b)
    /\ UNCHANGED <<shared, ret, eq, int_vars, synth_vars>>

NextFormula == CallTseytinTransform \/ CallToCnf \/ CallEq \/ CallAdd
SpecFormula == Init /\ [][NextFormula]_vars

\* ---------------------------------------------------------- the integer layer
\* v.get_specification() on an IntVariable just made
CallGetSpecification ==
    /\ op = "init"
    /\ \E v \in IntVariables : \E c \in GetSpecification(v) :
          /\ op' = "get_specification"
          /\ ivar' = v
          /\ out' = c
    /\ UNCHANGED <<phi, psi, shared, ret, eq, asg, sat, synth_vars>>

\* the solver tries a boolean assignment on the specification
Assign ==
    /\ op = "get_specification"
    /\ \E A \in [Names(out) -> BOOLEAN] :
          /\ op' = "assign"
          /\ asg' = A
          /\ sat' = Eval(out, A)
    /\ UNCHANGED <<phi, psi, shared, ret, out, eq, ivar, synth_vars>>

NextInt == CallGetSpecification \/ Assign
SpecInt == Init /\ [][NextInt]_vars

\* ------------------------------------------------------------ the synthesizer
\* the inputs of the synthesizer's calls
SynthNames   == {UserName(n) : n \in UserNames \cup {"z"}}
LiteralPool  == PlainLiterals \cup Constants
                    \cup {EqConstTerm(IntVariable("v", MaxDom, 1), 1)}
IdPool       == {1, -1, 2, -2, 3, -3, MaxVars + 2, -(MaxVars + 2)}
RECURSIVE ListsUpTo(_, _)
\* the lists of at most n elements of S
ListsUpTo(S, n) ==
    IF n = 0 THEN {<<>>}
    ELSE LET T == ListsUpTo(S, n - 1) IN T \cup {Append(t, x) : t \in T, x \in S}
\* root * cnf of what tseytin_transform returns, as example_sudoku renders it
Transformable ==
    {Disjunction({Variable(UserName("x"))}),
     Conjunction({Variable(UserName("x")), Variable(UserName("y"))})}
TseytinCNFs ==
    {Mul(r.root, r.cnf) : r \in {t \in UNION {TseytinTransform(f) : f \in Transformable} :
                                    ~Raised(t)}}
ClausePool == {Clause(T) : T \in SetsUpTo(LiteralPool, MaxIds)}
SynthInputs ==
    LiteralPool \cup {c \in ClausePool : Cardinality(c.kids) <= 1} \cup TseytinCNFs
        \cup {Disjunction({Variable(UserName("x"))}),
              EqVarTerm(IntVariable("v", 1, 1), IntVariable("w", 1, 1))}

\* a method returned (or raised): the registry, the argument and the result
Return(name, a, r, p) ==
    /\ Len(r.i2v) <= MaxVars
    /\ op' = name
    /\ arg' = a
    /\ result' = [exc |-> r.exc, id |-> r.id, ids |-> r.ids, lits |-> r.lits, cnf |-> r.cnf]
    /\ variables_to_id' = r.v2i
    /\ ids_to_variables' = r.i2v
    /\ prev' = p
    /\ UNCHANGED <<phi, psi, shared, ret, out, eq, int_vars, instance>>

\* PySATSynthesizer(), or a subclass of it that defines the two abstract
\* methods which PySATSynthesizer leaves undefined
Construct ==
    /\ op = "init"
    /\ \E added \in {{}, {"synthesize_disjunction", "synthesize_conjunction"}} :
          /\ instance' = Instantiate(added)
          /\ op' = IF Instantiate(added) = "ready" THEN "idle" ELSE "__init__"
          /\ result' = [NoResult EXCEPT
                            !.exc = IF Instantiate(added) = "ready" THEN "" ELSE "TypeError"]
    /\ variables_to_id' = <<>>
    /\ ids_to_variables' = <<>>
    /\ UNCHANGED <<phi, psi, shared, ret, out, eq, int_vars, arg, prev>>

\* synthesizer.synthesize_variable(name)
CallSynthesizeVariable ==
    /\ instance = "ready" /\ op = "idle"
    /\ \E name \in SynthNames :
          Return("synthesize_variable", [NoArg EXCEPT !.name = name],
                 SynthesizeVariable(variables_to_id, ids_to_variables, name), NoPrev)

\* synthesizer.get_assumptions(), synthesizer.get_assumptions(literals)
CallGetAssumptions ==
    /\ instance = "ready" /\ op = "idle"
    /\ \E given \in BOOLEAN : \E lits \in ListsUpTo(LiteralPool, MaxIds) :
          /\ ~given => lits = <<>>
          /\ Return("get_assumptions", [NoArg EXCEPT !.given = given, !.lits = lits],
                    GetAssumptions(variables_to_id, ids_to_variables, given, lits), NoPrev)

\* synthesizer.translate(ids) on ids of the caller's
CallTranslate ==
    /\ instance = "ready" /\ op = "idle"
    /\ \E ids \in ListsUpTo(IdPool, MaxIds) :
          Return("translate", [NoArg EXCEPT !.ids = ids],
                 Translate(variables_to_id, ids_to_variables, ids), NoPrev)

\* synthesizer.translate(ids) on the ids the call before returned: a clause
\* just rendered, or the model the solver found
CallTranslateReturned ==
    /\ instance = "ready" /\ op \in {"Clause.synthesize", "solve"} /\ result.exc = ""
    /\ Return("translate", [NoArg EXCEPT !.ids = result.ids],
              Translate(variables_to_id, ids_to_variables, result.ids),
              [op |-> op, f |-> arg.f, lits |-> arg.lits])

\* synthesizer.synthesize(formula)
CallSynthesize ==
    /\ instance = "ready" /\ op = "idle"
    /\ \E f \in SynthInputs : \E r \in Synthesize(variables_to_id, ids_to_variables, f) :
          Return("synthesize", [NoArg EXCEPT !.f = f], r, NoPrev)

\* clause.synthesize(synthesizer), the frozenset of literals iterated as q
CallClauseSynthesize ==
    /\ instance = "ready" /\ op = "idle"
    /\ \E c \in ClausePool : \E q \in Orders(c.kids) :
          Return("Clause.synthesize", [NoArg EXCEPT !.f = c, !.lits = q],
                 ClauseSynthesize(variables_to_id, ids_to_variables, q), NoPrev)

\* the models of a rendered CNF under the assumptions get_assumptions() gives:
\* one signed id for every variable up to the largest one
Models(cnf) ==
    LET used == {constant_true_id}
                    \cup UNION {{Abs(cnf[i][j]) : j \in 1..Len(cnf[i])} : i \in 1..Len(cnf)}
        top  == CHOOSE n \in used : \A k \in used : k <= n
        all  == {[i \in 1..top |-> IF i \in T THEN i ELSE -i] : T \in SUBSET (1..top)}
    IN  {m \in all :
            /\ m[constant_true_id] = constant_true_id
            /\ \A i \in 1..Len(cnf) : \E j \in 1..Len(cnf[i]) : m[Abs(cnf[i][j])] = cnf[i][j]}
\* the SAT solver finds a model of the CNF just rendered
Solve ==
    /\ instance = "ready" /\ op = "synthesize" /\ result.exc = ""
    /\ \E m \in Models(result.cnf) :
          /\ op' = "solve"
          /\ result' = [result EXCEPT !.ids = m]
    /\ UNCHANGED <<phi, psi, shared, ret, out, eq, int_vars, instance,
                   variables_to_id, ids_to_variables, arg, prev>>

\* the caller takes what the call returned and goes on
Continue ==
    /\ instance = "ready" /\ op \notin {"init", "idle"}
    /\ op' = "idle"
    /\ arg' = NoArg /\ result' = NoResult /\ prev' = NoPrev
    /\ UNCHANGED <<phi, psi, shared, ret, out, eq, int_vars, instance,
                   variables_to_id, ids_to_variables>>

NextSynth ==
    \/ Construct
    \/ CallSynthesizeVariable
    \/ CallGetAssumptions
    \/ CallTranslate
    \/ CallTranslateReturned
    \/ CallSynthesize
    \/ CallClauseSynthesize
    \/ Solve
    \/ Continue
SpecSynth == Init /\ [][NextSynth]_vars

\* ------------------------------------------------------- claims: the algebra
\* the formulas of claim C1: Constant, Variable, negation, Disjunction,
\* Conjunction, Implication, Equivalence
RECURSIVE InGrammar(_)
InGrammar(f) ==
    CASE f.k \in {"Constant", "Variable"} -> TRUE
      [] f.k \in {"LiteralNegation", "FormulaNegation"} -> InGrammar(f.args[1])
      [] f.k \in {"Implication", "Equivalence"} -> InGrammar(f.args[1]) /\ InGrammar(f.args[2])
      [] f.k \in {"Disjunction", "Conjunction"} -> \A g \in f.kids : InGrammar(g)
      [] OTHER -> FALSE

\* C1: whenever tseytin_transform returns (root, cnf) for a formula phi, phi is
\* true under an assignment A of its variables if and only if some extension of
\* A to the auxiliary variables satisfies every clause of cnf and root.
C1_TseytinEquisatisfiable ==
    (op = "tseytin_transform" /\ InGrammar(phi) /\ ~Raised(ret))
        => Equisatisfiable(phi, ret.root, ret.cnf)

\* C2: to_cnf of a Literal is the CNF of the unit clause on it, of a Clause the
\* CNF of that clause, of a CNF the CNF itself, and of every other node the side
\* CNF of tseytin_transform conjoined with the unit clause on the root.
C2_ToCnfConjoinsRoot ==
    (op = "to_cnf" /\ ~IsRaise(out)) =>
        CASE IsLiteral(phi) -> out = CNF({Clause({phi})})
          [] IsClause(phi)  -> out = CNF({phi})
          [] IsCNF(phi)     -> out = phi
          [] OTHER          ->
                \E r \in TseytinTransform(phi) : ~Raised(r) /\ out = Mul(r.root, r.cnf)

\* C4: the Disjunction and the Conjunction of no children pass through
\* tseytin_transform without raising; the root of the empty Disjunction cannot
\* be satisfied, the root of the empty Conjunction can.
C4_EmptyJunctionsTransform ==
    (op = "tseytin_transform" /\ phi.k \in {"Disjunction", "Conjunction"} /\ phi.kids = {})
        => /\ ~Raised(ret)
           /\ SatisfiableWith(ret.root, ret.cnf, <<>>) <=> (phi.k = "Conjunction")

\* the variant of a node; a Clause is a Disjunction and a CNF a Conjunction
Variant(f) ==
    IF IsDisjunction(f) THEN "Disjunction"
    ELSE IF IsConjunction(f) THEN "Conjunction" ELSE f.k
RECURSIVE StructurallyEqual(_, _)
\* the same variant, and children that are equal as sets
StructurallyEqual(a, b) ==
    /\ Variant(a) = Variant(b)
    /\ a.nm = b.nm /\ a.b = b.b /\ a.val = b.val /\ a.iv = b.iv
    /\ \A x \in a.kids : \E y \in b.kids : StructurallyEqual(x, y)
    /\ \A y \in b.kids : \E x \in a.kids : StructurallyEqual(x, y)
    /\ Len(a.args) = Len(b.args)
    /\ \/ \A i \in 1..Len(a.args) : StructurallyEqual(a.args[i], b.args[i])
       \/ /\ a.k = "Equivalence"
          /\ StructurallyEqual(a.args[1], b.args[2])
          /\ StructurallyEqual(a.args[2], b.args[1])
IsNegatedConstant(f) == f.k = "LiteralNegation" /\ f.args[1].k = "Constant"

\* C10: a == b holds if and only if a and b are of the same variant and their
\* children are equal as sets; a negated Constant equals no Variable.  (The
\* pair of a Constant and a negated Constant, which the data model equates, is
\* left out.)
C10_StructuralEquality ==
    op = "__eq__" =>
        /\ (~IsNegatedConstant(phi) /\ ~IsNegatedConstant(psi))
              => (eq <=> StructurallyEqual(phi, psi))
        /\ (IsNegatedConstant(phi) /\ psi.k = "Variable") => ~eq

\* ------------------------------------------------- claims: the integer layer
Disjoint(x, y) ==
    (IF x.min >= y.min THEN x.min ELSE y.min) > (IF x.max <= y.max THEN x.max ELSE y.max)

\* C3: for two IntVariables of disjoint domains, EqVarTerm(x, y).tseytin_transform()
\* does not raise, and the CNF it returns cannot be satisfied together with the
\* root.
C3_DisjointEqVarTermIsFalse ==
    (op = "tseytin_transform" /\ phi.k = "EqVarTerm" /\ Disjoint(phi.iv[1], phi.iv[2]))
        => /\ ~Raised(ret)
           /\ ~SatisfiableWith(ret.root, ret.cnf, <<>>)

\* C5: for an IntVariable v of domain [1, k], get_specification() returns a CNF
\* of exactly k(k-1)/2 + 1 distinct clauses over the literals v==1 .. v==k, and
\* a boolean assignment to these literals satisfies it if and only if exactly
\* one of them is true.
C5_OneHotSpecification ==
    LET k == ivar.max
        values == {EqConstName(ivar, i) : i \in 1..k}
    IN  /\ (op = "get_specification" /\ ivar.min = 1) =>
              /\ IsCNF(out)
              /\ \A c \in out.kids : IsClause(c)
              /\ Cardinality(out.kids) = (k * (k - 1)) \div 2 + 1
              /\ Names(out) = values
        /\ (op = "assign" /\ ivar.min = 1) =>
              /\ DOMAIN asg = values
              /\ sat <=> Cardinality({n \in values : asg[n]}) = 1
\* a domain of three values, and an assignment that satisfies its specification
C5_Witness ==
    op = "assign" /\ ivar.min = 1 /\ ivar.max = 3 /\ sat /\ Cardinality(out.kids) = 4

\* -------------------------------------------------- claims: the synthesizer
\* the registry maps the n known names one-to-one onto the ids 2 .. n+1
RegistryDense ==
    LET n == Len(ids_to_variables)
    IN  /\ DOMAIN variables_to_id = {ids_to_variables[i] : i \in 1..n}
        /\ Cardinality(DOMAIN variables_to_id) = n
        /\ {variables_to_id[name] : name \in DOMAIN variables_to_id} = 2..(n + 1)
        /\ \A i \in 1..n : variables_to_id[ids_to_variables[i]] = i + 1
\* a step keeps the id of every known name; synthesize_variable gives a new
\* name the next free id and a known name its id, leaving the registry alone
RegistryStep ==
    /\ \A name \in DOMAIN variables_to_id :
          name \in DOMAIN variables_to_id' /\ variables_to_id'[name] = variables_to_id[name]
    /\ op' = "synthesize_variable" =>
          /\ result'.id # constant_true_id
          /\ IF arg'.name \in DOMAIN variables_to_id
             THEN /\ result'.id = variables_to_id[arg'.name]
                  /\ UNCHANGED <<variables_to_id, ids_to_variables>>
             ELSE /\ result'.id = Cardinality(DOMAIN variables_to_id) + 2
                  /\ variables_to_id'[arg'.name] = result'.id

\* C6: after any sequence of synthesize_variable, get_assumptions, translate and
\* synthesize calls the registry maps the n known names one-to-one onto the ids
\* 2 .. n+1; synthesize_variable never returns the reserved id 1, gives a new
\* name the next free id and a known name the id it was given first, without
\* changing the registry.
C6_RegistryMemoises == [](RegistryDense) /\ [][RegistryStep]_vars
\* synthesize_variable called again on the name registered first of three
C6_Witness ==
    /\ op = "synthesize_variable" /\ result.id = 2
    /\ Len(ids_to_variables) = 3 /\ arg.name = ids_to_variables[1]

\* C7: translate of a model of a CNF made by the Tseytin transformation returns
\* no literal that names an auxiliary variable.
C7_TranslateFiltersAuxiliaries ==
    (op = "translate" /\ prev.op = "solve")
        => \A i \in 1..Len(result.lits) : ~IsAuxName(result.lits[i].nm)

\* a Variable, plain or negated
IsVariableLiteral(l) ==
    l.k = "Variable" \/ (l.k = "LiteralNegation" /\ l.args[1].k = "Variable")
\* C8: translate of the ids a clause of plain and negated Variables was rendered
\* to returns exactly these literals, in the order of the ids; every id is
\* translated to a Variable (positive) or a negated Variable (negative) of the
\* registered name, but for the ids 1 and -1, which are skipped.
C8_TranslateInvertsRendering ==
    /\ (op = "translate" /\ prev.op = "Clause.synthesize"
            /\ \A i \in 1..Len(prev.lits) : IsVariableLiteral(prev.lits[i]))
          => (result.exc = "" /\ result.lits = prev.lits)
    /\ (op = "translate" /\ result.exc = "") =>
          LET kept == SelectSeq(arg.ids, LAMBDA id : Abs(id) # constant_true_id)
          IN  /\ Len(result.lits) = Len(kept)
              /\ \A j \in 1..Len(kept) :
                    /\ result.lits[j].nm \in DOMAIN variables_to_id
                    /\ variables_to_id[result.lits[j].nm] = Abs(kept[j])
                    /\ result.lits[j].k = IF kept[j] > 0 THEN "Variable" ELSE "LiteralNegation"
                    /\ IsVariableLiteral(result.lits[j])
\* the clause of a and not b, rendered and translated back
C8_Witness ==
    /\ op = "translate" /\ prev.op = "Clause.synthesize"
    /\ Len(prev.lits) = 2 /\ result.lits = prev.lits
    /\ prev.lits[1].k = "Variable" /\ prev.lits[2].k = "LiteralNegation"
    /\ prev.lits[1].nm # prev.lits[2].nm

RECURSIVE Rendering(_, _)
\* the signed id of a literal under the registry v2i
Rendering(v2i, l) ==
    CASE l.k = "Constant" -> IF l.b THEN constant_true_id ELSE -constant_true_id
      [] l.k = "LiteralNegation" -> -Rendering(v2i, l.args[1])
      [] OTHER -> v2i[l.nm]
\* C9: get_assumptions(literals) returns the reserved true-id 1 followed by the
\* rendering of each literal in the order supplied, a negated literal as a
\* negative id; with no argument it returns [1].
C9_AssumptionsLeadWithTrue ==
    op = "get_assumptions" =>
        /\ result.exc = ""
        /\ Len(result.ids) >= 1 /\ result.ids[1] = constant_true_id
        /\ ~arg.given => result.ids = <<constant_true_id>>
        /\ arg.given =>
              /\ Len(result.ids) = 1 + Len(arg.lits)
              /\ \A i \in 1..Len(arg.lits) :
                    result.ids[i + 1] = Rendering(variables_to_id, arg.lits[i])
\* two literals supplied, the second of them a negated variable
C9_Witness ==
    /\ op = "get_assumptions" /\ arg.given /\ Len(arg.lits) = 2
    /\ arg.lits[2].k = "LiteralNegation" /\ result.ids[3] < -1

\* ------------------------------------------------ claims: hashing and building
\* C11: whenever a == b holds for two formula nodes, hash(a) == hash(b); the
\* pair of Constant(true) and the negation of Constant(false) is among them.
C11_HashConsistentWithEq ==
    (op = "__eq__" /\ eq) => Hash(phi) = Hash(psi)

\* the disjuncts a formula contributes to a sum: its children if it is a
\* Disjunction or a Clause, itself otherwise
Disjuncts(f) == IF IsDisjunction(f) THEN f.kids ELSE {f}
\* C12: a + b never raises for two formulas; it is Clause({a, b}) for two
\* literals, and in every case a disjunction whose children are the children of
\* the sides that are disjunctions and the other sides themselves, so that
\* (a + b) + (c + d) is the disjunction of a, b, c and d.
C12_AddIsTotal ==
    op = "__add__" =>
        /\ ~IsRaise(out)
        /\ IsDisjunction(out)
        /\ (IsLiteral(phi) /\ IsLiteral(psi)) => out = Clause({phi, psi})
        /\ out.kids = Disjuncts(phi) \cup Disjuncts(psi)

\* ------------------------------------------ claims: the clauses of the Tseytin pass
\* the two clause groups of a Conjunction of root s over the children's roots
ConjunctionClauses(s, roots) ==
    {Clause({s} \cup {Neg(t) : t \in roots})} \cup {Clause({Neg(s), t}) : t \in roots}
\* C13: for a Conjunction of n >= 1 children transformed to the roots t1..tn,
\* tseytin_transform returns a fresh auxiliary s and a CNF that holds, apart
\* from the children's side CNFs, exactly the clause (s or not t1 .. or not tn)
\* and the n clauses (not s or ti); no child's root is a unit clause of it.
C13_ConjunctionClauseGroups ==
    (op = "tseytin_transform" /\ phi.k = "Conjunction" /\ phi.kids # {} /\ ~Raised(ret)) =>
        \E tt \in [phi.kids -> UNION {TseytinTransform(c) : c \in phi.kids}] :
            /\ \A c \in phi.kids : tt[c] \in TseytinTransform(c) /\ ~Raised(tt[c])
            /\ ret.root.k = "Variable" /\ IsAuxName(ret.root.nm)
            /\ ret.cnf.kids =
                  ConjunctionClauses(ret.root, {tt[c].root : c \in phi.kids})
                      \cup UNION {tt[c].cnf.kids : c \in phi.kids}

\* C14: when phi.tseytin_transform() returns (t, psi) for a formula phi that is
\* no literal, FormulaNegation(phi).tseytin_transform() returns a fresh
\* auxiliary s and the CNF of (not s or not t), (s or t) and the clauses of psi.
C14_FormulaNegationReturns ==
    (/\ op = "tseytin_transform" /\ phi.k = "FormulaNegation"
     /\ \E r \in TseytinTransform(phi.args[1]) : ~Raised(r)) =>
        /\ ~Raised(ret)
        /\ ret.root.k = "Variable" /\ IsAuxName(ret.root.nm)
        /\ \E r \in TseytinTransform(phi.args[1]) :
              /\ ~Raised(r)
              /\ IsCNF(ret.cnf)
              /\ ret.cnf.kids =
                    {Clause({Neg(ret.root), Neg(r.root)}), Clause({ret.root, r.root})}
                        \cup r.cnf.kids

\* the nodes that get an auxiliary variable when f is transformed: f itself (the
\* formula it delegates to) and those of its subformulae, the literals left out
RECURSIVE Junctions(_)
Junctions(f) ==
    UNION {(IF IsLiteral(self) THEN {} ELSE {self})
               \cup UNION {Junctions(c) : c \in Subformulae(self)} :
           self \in {Delegate(f)}}
\* the name of the auxiliary variable that g.tseytin_transform() makes
AuxNames(g) == {r.root.nm : r \in TseytinTransform(g)}
\* C15: within one transformation that returns, two subformulae that are no
\* literals get the same auxiliary name if and only if they are structurally
\* equal.
C15_OneAuxiliaryPerSubformula ==
    (op = "tseytin_transform" /\ ~Raised(ret)) =>
        \A g, h \in Junctions(phi) :
            (AuxNames(g) = AuxNames(h)) <=> StructurallyEqual(g, h)

=============================================================================
